---- MODULE Spec2Model ----
(***************************************************************************)
(* Model of src/web_reports.py: generate_monthly_returns_report.            *)
(*                                                                         *)
(* The function is modelled statement by statement.  A period string is a  *)
(* sequence of one-character strings, a return value is <<v>> (v in whole   *)
(* percent) or <<>> for NaN, and an int() conversion yields <<n>> or <<>>    *)
(* when Python raises ValueError.                                          *)
(***************************************************************************)
EXTENDS Integers, Sequences, FiniteSets, TLC

VARIABLES df, strategy_name, file, pc, exc, data, pivot_table, html_content, row_i

vars == <<df, strategy_name, file, pc, exc, data, pivot_table, html_content, row_i>>

----------------------------------------------------------------------------
(* Bounds of the explored inputs *)

MaxObs == 2

MaxAbs == 1

NaN == <<>>

Returns == {NaN} \cup {<<v>> : v \in (0 - MaxAbs)..MaxAbs}

Periods ==
  { <<"2","0","2","2","_","0","1">>,
    <<"2","0","2","2","_","0","2">>,
    <<"2","0","2","3","_","0","1">>,
    <<"2","0","2","3","-","1","3">>,
    <<"a","b","c","d","_","0","1">>,
    <<"2","0","2","2","1","2">> }

Observations == [period : Periods, ret : Returns]

RECURSIVE SeqsUpTo(_, _)
SeqsUpTo(S, n) ==
  IF n = 0 THEN {<<>>}
  ELSE LET shorter == SeqsUpTo(S, n - 1)
       IN  shorter \cup {Append(s, x) : s \in {t \in shorter : Len(t) = n - 1}, x \in S}

\* strategy_name as a sequence of code points; 55296 is a lone surrogate
StrategyNames == { <<70, 117, 110, 100>>, <<70, 55296>> }

----------------------------------------------------------------------------
(* Python string and int() semantics *)

IsDigit(c) == c \in {"0","1","2","3","4","5","6","7","8","9"}

DigitVal(c) ==
  CASE c = "0" -> 0 [] c = "1" -> 1 [] c = "2" -> 2 [] c = "3" -> 3
    [] c = "4" -> 4 [] c = "5" -> 5 [] c = "6" -> 6 [] c = "7" -> 7
    [] c = "8" -> 8 [] c = "9" -> 9

\* s[:n]
SlicePrefix(s, n) == SubSeq(s, 1, IF Len(s) < n THEN Len(s) ELSE n)

\* s[n:]
SliceFrom(s, n) == SubSeq(s, n + 1, Len(s))

RECURSIVE Strip(_)
Strip(s) ==
  IF s = <<>> THEN s
  ELSE IF s[1] = " " THEN Strip(Tail(s))
  ELSE IF s[Len(s)] = " " THEN Strip(SubSeq(s, 1, Len(s) - 1))
  ELSE s

RECURSIVE DigitsValue(_, _)
DigitsValue(s, acc) ==
  IF s = <<>> THEN acc
  ELSE IF s[1] = "_" THEN DigitsValue(Tail(s), acc)
  ELSE DigitsValue(Tail(s), 10 * acc + DigitVal(s[1]))

\* the digit part of an int literal: digits, single underscores between digits
ValidDigits(s) ==
  /\ s # <<>>
  /\ IsDigit(s[1])
  /\ IsDigit(s[Len(s)])
  /\ \A i \in 1..Len(s) : IsDigit(s[i]) \/ s[i] = "_"
  /\ \A i \in 1..(Len(s) - 1) : ~(s[i] = "_" /\ s[i + 1] = "_")

\* int(s): <<n>>, or <<>> for ValueError
PyInt(s) ==
  LET t    == Strip(s)
      neg  == t # <<>> /\ t[1] = "-"
      sgn  == t # <<>> /\ t[1] \in {"-", "+"}
      body == IF sgn THEN Tail(t) ELSE t
  IN  IF ValidDigits(body)
      THEN IF neg THEN <<0 - DigitsValue(body, 0)>> ELSE <<DigitsValue(body, 0)>>
      ELSE <<>>

\* f"{value:.2f}%" for a whole-percent value
Fmt2(v) == ToString(v) \o ".00%"

Utf8Encodable(s) == \A i \in 1..Len(s) : s[i] \notin 55296..57343

----------------------------------------------------------------------------
(* pandas helpers *)

RECURSIVE SortedSeq(_)
SortedSeq(S) ==
  IF S = {} THEN <<>>
  ELSE LET m == CHOOSE x \in S : \A y \in S : x <= y
       IN  <<m>> \o SortedSeq(S \ {m})

Range(s) == {s[i] : i \in 1..Len(s)}

RECURSIVE SumSeq(_)
SumSeq(s) == IF s = <<>> THEN 0 ELSE s[1] + SumSeq(Tail(s))

isna(x) == x = NaN

EmptyTable == [index |-> <<>>, columns |-> <<>>, vals |-> <<>>, annual |-> <<>>]

EmptyDoc == [head |-> <<>>, rows |-> <<>>, foot |-> <<>>]

----------------------------------------------------------------------------
(* DataFrame.pivot(index='year', columns='month', values='monthly_return') *)

Rows(d) == 1..Len(d.year)

HasDuplicates_never(d) == FALSE

\* pivot raises "Index contains duplicate entries, cannot reshape"
HasDuplicates(d) ==
  \E i, j \in Rows(d) : i < j /\ d.year[i] = d.year[j] /\ d.month[i] = d.month[j]

PivotIndex_dropna(d) ==
  SortedSeq({d.year[i] : i \in {k \in Rows(d) : ~isna(d.monthly_return[k])}})

PivotIndex(d) == SortedSeq({d.year[i] : i \in Rows(d)})

PivotColumns(d) == SortedSeq({d.month[i] : i \in Rows(d)})

CellValue(d, y, m) ==
  LET hits == {i \in Rows(d) : d.year[i] = y /\ d.month[i] = m}
  IN  IF hits = {} THEN NaN
      ELSE d.monthly_return[CHOOSE i \in hits : \A j \in hits : j <= i]

Pivot(d) ==
  [index   |-> PivotIndex(d),
   columns |-> PivotColumns(d),
   vals    |-> [c \in Range(PivotIndex(d)) \X Range(PivotColumns(d))
                  |-> CellValue(d, c[1], c[2])],
   annual  |-> <<>>]

MonthCols_all(columns) == columns

\* [i for i in range(1, 13) if i in pivot_table.columns]
MonthCols(columns) == SelectSeq(SortedSeq(1..12), LAMBDA i : i \in Range(columns))

\* pivot_table[month_cols]
SelectColumns(t, cols) ==
  [t EXCEPT !.columns = cols,
            !.vals = [c \in Range(t.index) \X Range(cols) |-> t.vals[c]]]

\* DataFrame.sum(axis=1) of one row: NaN skipped, an empty row sums to 0
RECURSIVE RowSum(_, _, _)
RowSum(t, y, cols) ==
  IF cols = <<>> THEN 0
  ELSE (IF isna(t.vals[<<y, cols[1]>>]) THEN 0 ELSE t.vals[<<y, cols[1]>>][1])
       + RowSum(t, y, Tail(cols))

\* pivot_table.loc[year, month] if month in columns and not isna(...) else None
CellOrNone(t, y, m) ==
  IF m \in Range(t.columns) /\ ~isna(t.vals[<<y, m>>]) THEN t.vals[<<y, m>>] ELSE <<>>

CssClass_strict(v) == IF v > 0 THEN "positive" ELSE "negative"

CssClass(v) == IF v >= 0 THEN "positive" ELSE "negative"

RenderCell(value) ==
  IF value # <<>>
  THEN [cls |-> CssClass(value[1]), text |-> Fmt2(value[1])]
  ELSE [cls |-> "", text |-> "-"]

RenderAnnual(total) ==
  [cls |-> "annual-total " \o CssClass(total), text |-> Fmt2(total)]

RenderRow(t, y) ==
  [year   |-> y,
   cells  |-> [m \in 1..12 |-> RenderCell(CellOrNone(t, y, m))],
   annual |-> RenderAnnual(t.annual[y])]

----------------------------------------------------------------------------
(* Series reductions used by the summary statistics *)

SeriesValues(t) == [i \in 1..Len(t.index) |-> t.annual[t.index[i]]]

idxmax_last(index, s) ==
  IF index = <<>> THEN <<>>
  ELSE LET i == CHOOSE k \in 1..Len(s) :
                  /\ \A j \in 1..Len(s) : s[j] <= s[k]
                  /\ \A j \in 1..Len(s) : s[j] = s[k] => j <= k
       IN  <<index[i]>>

\* Series.idxmax(): label of the first maximum; <<>> when it raises on empty
idxmax(index, s) ==
  IF index = <<>> THEN <<>>
  ELSE LET i == CHOOSE k \in 1..Len(s) :
                  /\ \A j \in 1..Len(s) : s[j] <= s[k]
                  /\ \A j \in 1..Len(s) : s[j] = s[k] => k <= j
       IN  <<index[i]>>

\* Series.idxmin(): label of the first minimum; <<>> when it raises on empty
idxmin(index, s) ==
  IF index = <<>> THEN <<>>
  ELSE LET i == CHOOSE k \in 1..Len(s) :
                  /\ \A j \in 1..Len(s) : s[k] <= s[j]
                  /\ \A j \in 1..Len(s) : s[j] = s[k] => k <= j
       IN  <<index[i]>>

Mean_nonzero(s) ==
  [num |-> SumSeq(s), den |-> Len(SelectSeq(s, LAMBDA x : x # 0))]

\* Series.mean() as the exact fraction num/den
Mean(s) == [num |-> SumSeq(s), den |-> Len(s)]

----------------------------------------------------------------------------
(* generate_monthly_returns_report, statement by statement *)

Init ==
  /\ df \in SeqsUpTo(Observations, MaxObs)
  /\ strategy_name \in StrategyNames
  /\ file \in {[kind |-> "absent", doc |-> EmptyDoc], [kind |-> "previous", doc |-> EmptyDoc]}
  /\ pc = "copy"
  /\ exc = ""
  /\ data = [YYYY_MM |-> <<>>, monthly_return |-> <<>>, year |-> <<>>, month |-> <<>>]
  /\ pivot_table = EmptyTable
  /\ html_content = EmptyDoc
  /\ row_i = 0

Raise(e) ==
  /\ pc' = "raised"
  /\ exc' = e

\* data = df.copy()
Copy ==
  /\ pc = "copy"
  /\ data' = [YYYY_MM        |-> [i \in 1..Len(df) |-> df[i].period],
              monthly_return |-> [i \in 1..Len(df) |-> df[i].ret],
              year           |-> <<>>,
              month          |-> <<>>]
  /\ pc' = "year"
  /\ UNCHANGED <<df, strategy_name, file, exc, pivot_table, html_content, row_i>>

\* data['year'] = data['YYYY_MM'].astype(str).str[:4].astype(int)
ParseYear ==
  /\ pc = "year"
  /\ LET ys == [i \in 1..Len(data.YYYY_MM) |-> PyInt(SlicePrefix(data.YYYY_MM[i], 4))]
     IN  IF \E i \in 1..Len(ys) : ys[i] = <<>>
         THEN Raise("ValueError: invalid literal for int()") /\ UNCHANGED data
         ELSE /\ data' = [data EXCEPT !.year = [i \in 1..Len(ys) |-> ys[i][1]]]
              /\ pc' = "month"
              /\ UNCHANGED exc
  /\ UNCHANGED <<df, strategy_name, file, pivot_table, html_content, row_i>>

\* data['month'] = data['YYYY_MM'].astype(str).str[5:].astype(int)
ParseMonth ==
  /\ pc = "month"
  /\ LET ms == [i \in 1..Len(data.YYYY_MM) |-> PyInt(SliceFrom(data.YYYY_MM[i], 5))]
     IN  IF \E i \in 1..Len(ms) : ms[i] = <<>>
         THEN Raise("ValueError: invalid literal for int()") /\ UNCHANGED data
         ELSE /\ data' = [data EXCEPT !.month = [i \in 1..Len(ms) |-> ms[i][1]]]
              /\ pc' = "pivot"
              /\ UNCHANGED exc
  /\ UNCHANGED <<df, strategy_name, file, pivot_table, html_content, row_i>>

\* pivot_table = data.pivot(index='year', columns='month', values='monthly_return')
PivotStep ==
  /\ pc = "pivot"
  /\ IF HasDuplicates(data)
     THEN Raise("ValueError: Index contains duplicate entries, cannot reshape")
          /\ UNCHANGED pivot_table
     ELSE /\ pivot_table' = Pivot(data)
          /\ pc' = "reorder"
          /\ UNCHANGED exc
  /\ UNCHANGED <<df, strategy_name, file, data, html_content, row_i>>

\* month_cols = [...]; pivot_table = pivot_table[month_cols]
Reorder ==
  /\ pc = "reorder"
  /\ pivot_table' = SelectColumns(pivot_table, MonthCols(pivot_table.columns))
  /\ pc' = "annual"
  /\ UNCHANGED <<df, strategy_name, file, exc, data, html_content, row_i>>

\* pivot_table['Annual Total'] = pivot_table.sum(axis=1)
AnnualTotal ==
  /\ pc = "annual"
  /\ pivot_table' = [pivot_table EXCEPT !.annual =
                       [y \in Range(pivot_table.index)
                          |-> RowSum(pivot_table, y, pivot_table.columns)]]
  /\ pc' = "head"
  /\ UNCHANGED <<df, strategy_name, file, exc, data, html_content, row_i>>

\* html_content = f"""...<title>{strategy_name} - Monthly Returns Report</title>..."""
DocumentHead ==
  /\ pc = "head"
  /\ html_content' = [html_content EXCEPT !.head = <<strategy_name>>]
  /\ row_i' = 1
  /\ pc' = "rows"
  /\ UNCHANGED <<df, strategy_name, file, exc, data, pivot_table>>

\* for year in sorted(pivot_table.index): one iteration
TableRow ==
  /\ pc = "rows"
  /\ row_i <= Len(pivot_table.index)
  /\ LET year == SortedSeq(Range(pivot_table.index))[row_i]
     IN  html_content' = [html_content EXCEPT
                            !.rows = Append(@, RenderRow(pivot_table, year))]
  /\ row_i' = row_i + 1
  /\ UNCHANGED <<df, strategy_name, file, pc, exc, data, pivot_table>>

\* the loop is exhausted
RowsDone ==
  /\ pc = "rows"
  /\ row_i > Len(pivot_table.index)
  /\ pc' = "summary"
  /\ UNCHANGED <<df, strategy_name, file, exc, data, pivot_table, html_content, row_i>>

Summary_skip_empty ==
  /\ pc = "summary"
  /\ LET annual_returns == SeriesValues(pivot_table)
         best  == idxmax(pivot_table.index, annual_returns)
         worst == idxmin(pivot_table.index, annual_returns)
     IN  /\ html_content' = [html_content EXCEPT !.foot =
               <<[best_year  |-> IF best = <<>> THEN 0 ELSE best[1],
                  best_total |-> IF best = <<>> THEN 0 ELSE pivot_table.annual[best[1]],
                  worst_year |-> IF worst = <<>> THEN 0 ELSE worst[1],
                  worst_total |-> IF worst = <<>> THEN 0 ELSE pivot_table.annual[worst[1]],
                  avg        |-> Mean(annual_returns),
                  total      |-> SumSeq(annual_returns),
                  years      |-> Len(annual_returns),
                  months     |-> Len(data.monthly_return)]>>]
         /\ pc' = "open"
         /\ UNCHANGED exc
  /\ UNCHANGED <<df, strategy_name, file, data, pivot_table, row_i>>

\* summary statistics and the closing part of the document
Summary ==
  /\ pc = "summary"
  /\ LET annual_returns == SeriesValues(pivot_table)
         best  == idxmax(pivot_table.index, annual_returns)
         worst == idxmin(pivot_table.index, annual_returns)
     IN  IF best = <<>> \/ worst = <<>>
         THEN Raise("ValueError: attempt to get argmax of an empty sequence")
              /\ UNCHANGED html_content
         ELSE /\ html_content' = [html_content EXCEPT !.foot =
                    <<[best_year   |-> best[1],
                       best_total  |-> pivot_table.annual[best[1]],
                       worst_year  |-> worst[1],
                       worst_total |-> pivot_table.annual[worst[1]],
                       avg         |-> Mean(annual_returns),
                       total       |-> SumSeq(annual_returns),
                       years       |-> Len(annual_returns),
                       months      |-> Len(data.monthly_return)]>>]
              /\ pc' = "open"
              /\ UNCHANGED exc
  /\ UNCHANGED <<df, strategy_name, file, data, pivot_table, row_i>>

\* with open(output_file, 'w', encoding='utf-8') as f: the open truncates
Open ==
  /\ pc = "open"
  /\ \/ /\ file' = [kind |-> "truncated", doc |-> EmptyDoc]
        /\ pc' = "write"
        /\ UNCHANGED exc
     \/ /\ Raise("OSError")
        /\ UNCHANGED file
  /\ UNCHANGED <<df, strategy_name, data, pivot_table, html_content, row_i>>

\* f.write(html_content), then the with block closes the file
Write ==
  /\ pc = "write"
  /\ IF ~Utf8Encodable(strategy_name)
     THEN Raise("UnicodeEncodeError") /\ UNCHANGED file
     ELSE \/ /\ file' = [kind |-> "written", doc |-> html_content]
             /\ pc' = "return"
             /\ UNCHANGED exc
          \/ /\ file' = [kind |-> "partial", doc |-> EmptyDoc]
             /\ Raise("OSError")
  /\ UNCHANGED <<df, strategy_name, data, pivot_table, html_content, row_i>>

\* print(...); return output_file
Return ==
  /\ pc = "return"
  /\ pc' = "done"
  /\ UNCHANGED <<df, strategy_name, file, exc, data, pivot_table, html_content, row_i>>

Next ==
  \/ Copy
  \/ ParseYear
  \/ ParseMonth
  \/ PivotStep
  \/ Reorder
  \/ AnnualTotal
  \/ DocumentHead
  \/ TableRow
  \/ RowsDone
  \/ Summary
  \/ Open
  \/ Write
  \/ Return

Spec == Init /\ [][Next]_vars

----------------------------------------------------------------------------
(* Reference notions used to state the properties *)

\* a period as section 4.1 requires it: YYYY, one non-digit, MM in 01..12
WellFormed(p) ==
  /\ Len(p) = 7
  /\ \A i \in {1, 2, 3, 4, 6, 7} : IsDigit(p[i])
  /\ ~IsDigit(p[5])
  /\ 10 * DigitVal(p[6]) + DigitVal(p[7]) \in 1..12

AllWellFormed == \A i \in 1..Len(df) : WellFormed(df[i].period)

RefYear(p) == 1000 * DigitVal(p[1]) + 100 * DigitVal(p[2]) + 10 * DigitVal(p[3]) + DigitVal(p[4])

Terminated == pc \in {"raised", "done"}

Untouched == file.kind \in {"absent", "previous"}

\* every period converts, and two observations name the same (year, month)
InputHasDuplicate ==
  /\ \A i \in 1..Len(df) :
       /\ PyInt(SlicePrefix(df[i].period, 4)) # <<>>
       /\ PyInt(SliceFrom(df[i].period, 5)) # <<>>
  /\ \E i, j \in 1..Len(df) :
       /\ i < j
       /\ PyInt(SlicePrefix(df[i].period, 4)) = PyInt(SlicePrefix(df[j].period, 4))
       /\ PyInt(SliceFrom(df[i].period, 5)) = PyInt(SliceFrom(df[j].period, 5))

\* sum of the present values observed for year y in months 1..12
RECURSIVE PresentSum(_, _)
PresentSum(y, n) ==
  IF n = 0 THEN 0
  ELSE PresentSum(y, n - 1)
       + (IF /\ data.year[n] = y
             /\ data.month[n] \in 1..12
             /\ ~isna(data.monthly_return[n])
          THEN data.monthly_return[n][1] ELSE 0)

PresentCells == {c \in DOMAIN pivot_table.vals : ~isna(pivot_table.vals[c])}

RowYears == {html_content.rows[i].year : i \in 1..Len(html_content.rows)}

----------------------------------------------------------------------------
(* Properties *)

\* C1: a report is produced only when every period of the input is well
\* formed; a malformed period always makes the call fail.
C1_MalformedPeriodFails == pc = "done" => AllWellFormed

\* C2: the reported "Months of Data" equals the number of non-absent cells
\* of the year x month matrix.
C2_MonthCountIsPresentCells ==
  pc = "done" => html_content.foot[1].months = Cardinality(PresentCells)

\* C3 (as stated): with two observations for the same (year, month) no error
\* is raised.
C3_DuplicateSilentlyOverwrites == InputHasDuplicate => pc # "raised"

\* C3 (amended): with two observations for the same (year, month) the pivot
\* raises ValueError; no table, no document and no file write follow.
C3_DuplicateRejected ==
  InputHasDuplicate =>
    /\ pc \in {"copy", "year", "month", "pivot", "raised"}
    /\ pc = "raised" => exc = "ValueError: Index contains duplicate entries, cannot reshape"
    /\ pivot_table = EmptyTable
    /\ html_content = EmptyDoc
    /\ Untouched

C3_Witness ==
  /\ InputHasDuplicate
  /\ pc = "raised"
  /\ df[1].ret # df[2].ret

\* C4: when the call has ended, normally or with an error, the output
\* destination holds its previous content or the complete new document.
C4_AtomicArtifact ==
  Terminated =>
    \/ Untouched
    \/ file.kind = "written" /\ file.doc = html_content /\ file.doc.foot # <<>>

\* C5: with zero observations the call fails, and it fails before the output
\* file is opened or written.
C5_EmptyInputFails ==
  df = <<>> =>
    /\ pc \notin {"open", "write", "return", "done"}
    /\ pc = "raised" => exc = "ValueError: attempt to get argmax of an empty sequence"
    /\ Untouched

C5_Witness == df = <<>> /\ pc = "raised" /\ html_content.head # <<>>

\* C6: for well-formed, pairwise distinct periods the year rows of the report
\* are exactly the years of the input, each once.
C6_RowsAreInputYears ==
  (pc = "done" /\ AllWellFormed) =>
    /\ RowYears = {RefYear(df[i].period) : i \in 1..Len(df)}
    /\ Len(html_content.rows) = Cardinality(RowYears)

C6_Witness ==
  /\ pc = "done"
  /\ AllWellFormed
  /\ Len(df) = 2
  /\ Len(html_content.rows) = 1

\* C7: each row's annual total is the sum of that year's present monthly
\* values; a row with all twelve months absent totals 0.
C7_AnnualTotalIsPresentSum ==
  pc = "done" =>
    \A i \in 1..Len(html_content.rows) :
      LET row == html_content.rows[i]
      IN  /\ pivot_table.annual[row.year] = PresentSum(row.year, Len(data.year))
          /\ row.annual.text = Fmt2(PresentSum(row.year, Len(data.year)))
          /\ (\A m \in 1..12 : row.cells[m].text = "-") => row.annual.text = "0.00%"

C7_Witness ==
  /\ pc = "done"
  /\ \E i \in 1..Len(html_content.rows) :
       /\ Cardinality({m \in 1..12 : html_content.rows[i].cells[m].text # "-"}) = 2
       /\ pivot_table.annual[html_content.rows[i].year] # 0

\* C8: best_year has a maximal annual total and worst_year a minimal one;
\* among tied years the smallest is reported.
C8_BestWorstYear ==
  pc = "done" =>
    LET f == html_content.foot[1]
        a == pivot_table.annual
    IN  /\ f.best_year \in DOMAIN a
        /\ f.worst_year \in DOMAIN a
        /\ f.best_total = a[f.best_year]
        /\ f.worst_total = a[f.worst_year]
        /\ \A y \in DOMAIN a :
             /\ a[y] <= a[f.best_year]
             /\ a[y] = a[f.best_year] => f.best_year <= y
             /\ a[f.worst_year] <= a[y]
             /\ a[y] = a[f.worst_year] => f.worst_year <= y

C8_Witness ==
  /\ pc = "done"
  /\ Len(df) = 2
  /\ data.year[1] > data.year[2]
  /\ pivot_table.annual[data.year[1]] = pivot_table.annual[data.year[2]]

\* C9: total_cumulative_return is the plain sum of the annual totals,
\* year_count is the number of rows, and average * year_count = total.
C9_AdditiveTotals ==
  pc = "done" =>
    LET f == html_content.foot[1]
    IN  /\ f.total = SumSeq([i \in 1..Len(html_content.rows) |->
                          PresentSum(html_content.rows[i].year, Len(data.year))])
        /\ f.years = Len(html_content.rows)
        /\ f.avg.den # 0
        /\ f.avg.num * f.years = f.total * f.avg.den

C9_Witness ==
  /\ pc = "done"
  /\ html_content.foot[1].years = 2
  /\ html_content.foot[1].total # 0
  /\ \E y \in DOMAIN pivot_table.annual : pivot_table.annual[y] = 0

\* C10: each of the twelve cells of a row is '-' for an absent slot, the
\* non-negative class for a present value >= 0 and the negative class for a
\* present value < 0.
C10_CellClasses ==
  \A i \in 1..Len(html_content.rows) :
    LET row == html_content.rows[i]
    IN  /\ DOMAIN row.cells = 1..12
        /\ \A m \in 1..12 :
             LET c == <<row.year, m>>
             IN  IF c \in PresentCells
                 THEN /\ row.cells[m].text = Fmt2(pivot_table.vals[c][1])
                      /\ row.cells[m].text # "-"
                      /\ pivot_table.vals[c][1] >= 0 => row.cells[m].cls = "positive"
                      /\ pivot_table.vals[c][1] < 0 => row.cells[m].cls = "negative"
                 ELSE row.cells[m] = [cls |-> "", text |-> "-"]

C10_Witness ==
  /\ pc = "done"
  /\ \E i \in 1..Len(html_content.rows) :
       /\ html_content.rows[i].cells[1] = [cls |-> "positive", text |-> "0.00%"]
       /\ html_content.rows[i].cells[2].text = "-"

====
